---- MODULE Spec2Model ----
(***************************************************************************)
(* Model of beetsplug/web/__init__.py: the JSON projection of library      *)
(* records (_rep), the streaming encoder (json_generator), the id-list     *)
(* parser (_extract_ids) and the three responder factories (resource,      *)
(* resource_query, resource_list) with the six routes built from them.     *)
(*                                                                         *)
(* Text is a sequence of one-character strings; a JSON text is a sequence  *)
(* of JSON tokens.                                                         *)
(***************************************************************************)
EXTENDS Integers, Sequences, FiniteSets, TLC

\* ------------------------------------------------------------------ bounds
\* longest string handed to _extract_ids on its own
MaxLen == 4
\* longest <entity_ids> URL segment of a by-ids request
MaxArgLen == 3
\* longest <path:query> of a query request
MaxQueryLen == 2
\* ids 1..MaxId may name a track or a release of the library
MaxId == 2

\* ----------------------------------------------------------------- strings
Digits == {"0", "1", "2", "3", "4", "5", "6", "7", "8", "9"}

DigitVal(c) ==
    CASE c = "0" -> 0 [] c = "1" -> 1 [] c = "2" -> 2 [] c = "3" -> 3
      [] c = "4" -> 4 [] c = "5" -> 5 [] c = "6" -> 6 [] c = "7" -> 7
      [] c = "8" -> 8 [] c = "9" -> 9

Whitespace == {" "}

\* every text of length lo..hi over the characters cs
Texts(cs, lo, hi) == UNION {[1..n -> cs] : n \in lo..hi}

\* characters of the strings tried on the parser alone
ParseChars == {"1", "2", ",", "x", " ", "-"}

\* characters of <entity_ids> in a by-ids request
ArgChars == {"1", "2", ",", "x"}

\* characters of <path:query> in a query request
QueryChars == {"a", "/"}

\* str.split(sep): a left-to-right scan; cur is the token being read
RECURSIVE split_scan(_, _, _, _)
split_scan(s, sep, cur, acc) ==
    IF s = <<>> THEN Append(acc, cur)
    ELSE IF Head(s) = sep
         THEN split_scan(Tail(s), sep, <<>>, Append(acc, cur))
         ELSE split_scan(Tail(s), sep, Append(cur, Head(s)), acc)

split(s, sep) == split_scan(s, sep, <<>>, <<>>)

RECURSIVE lstrip(_)
lstrip(s) ==
    IF s # <<>> /\ Head(s) \in Whitespace THEN lstrip(Tail(s)) ELSE s

RECURSIVE rstrip(_)
rstrip(s) ==
    IF s # <<>> /\ s[Len(s)] \in Whitespace
    THEN rstrip(SubSeq(s, 1, Len(s) - 1)) ELSE s

RECURSIVE digits_val(_, _)
digits_val(s, acc) ==
    IF s = <<>> THEN acc ELSE digits_val(Tail(s), 10 * acc + DigitVal(Head(s)))

\* int(text): surrounding whitespace is ignored, one optional sign, then one
\* or more decimal digits; anything else is a ValueError (ok = FALSE)
int(tok) ==
    LET t    == rstrip(lstrip(tok))
        neg  == t # <<>> /\ Head(t) = "-"
        sign == t # <<>> /\ Head(t) \in {"-", "+"}
        body == IF sign THEN Tail(t) ELSE t
        ok   == body # <<>> /\ \A i \in 1..Len(body) : body[i] \in Digits
    IN  [ok  |-> ok,
         val |-> IF ok THEN (IF neg THEN 0 - digits_val(body, 0)
                                    ELSE digits_val(body, 0))
                 ELSE 0]

\* the for loop of _extract_ids: ids.append(int(id)), a ValueError is passed
RECURSIVE extract_loop(_, _)
extract_loop(toks, ids) ==
    IF toks = <<>> THEN [exc |-> "none", ids |-> ids]
    ELSE LET r == int(Head(toks))
         IN  extract_loop(Tail(toks), IF r.ok THEN Append(ids, r.val) ELSE ids)

\* ---- mutants of the parser
RECURSIVE extract_loop_dedup(_, _)
extract_loop_dedup(toks, ids) ==
    IF toks = <<>> THEN [exc |-> "none", ids |-> ids]
    ELSE LET r    == int(Head(toks))
             seen == \E i \in 1..Len(ids) : ids[i] = r.val
         IN  extract_loop_dedup(Tail(toks),
                 IF r.ok /\ ~seen THEN Append(ids, r.val) ELSE ids)

RECURSIVE extract_loop_raise(_, _)
extract_loop_raise(toks, ids) ==
    IF toks = <<>> THEN [exc |-> "none", ids |-> ids]
    ELSE LET r == int(Head(toks))
         IN  IF r.ok THEN extract_loop_raise(Tail(toks), Append(ids, r.val))
             ELSE [exc |-> "ValueError", ids |-> <<>>]

extract_ids_dedup(string_ids) == extract_loop_dedup(split(string_ids, ","), <<>>)

extract_ids_raise(string_ids) == extract_loop_raise(split(string_ids, ","), <<>>)

_extract_ids(string_ids) == extract_loop(split(string_ids, ","), <<>>)

\* ----------------------------------------------------------------- state
VARIABLES
    lib,         \* app.config['lib']: the ids of the tracks and of the releases stored
    files,       \* ids of the tracks whose backing file os.path.getsize can stat
    g_lib,       \* flask.g.lib is bound for the request being served
    pc,          \* where the request being served stands
    request,     \* the request: route, kind, URL argument, injected backend fault
    entity_ids,  \* what _extract_ids returned for the request
    calls,       \* the calls made on g.lib, in order, with their arguments
    status,      \* HTTP status sent to the client, 0 while none is sent
    frags,       \* body fragments written to the client, in order
    gen,         \* the frame of the running json_generator
    projs        \* the _rep calls made for the response: record before/after, result

vars == <<lib, files, g_lib, pc, request, entity_ids, calls, status, frags, gen, projs>>

Ids == 1..MaxId

\* ------------------------------------------------------- library (backend)
\* methods of the Library object behind g.lib
LibMethods == {"get_item", "get_album", "items", "albums", "transaction"}

PathTable == [i \in Ids |-> "/music/" \o ToString(i) \o ".mp3"]

Path(i) == PathTable[i]

ItemTable == [i \in Ids |->
    [kind |-> "Item",
     rec  |-> [id |-> i, title |-> "track" \o ToString(i), album_id |-> i,
               path |-> Path(i)]]]

Item(i) == ItemTable[i]

AlbumTable == [a \in Ids |->
    [kind |-> "Album",
     rec  |-> [id |-> a, album |-> "release" \o ToString(a),
               artpath |-> "/art/" \o ToString(a) \o ".jpg"]]]

Album(a) == AlbumTable[a]

\* ascending sequence of the members of a set of ids
RECURSIVE SortedIds(_)
SortedIds(S) ==
    IF S = {} THEN <<>>
    ELSE LET m == CHOOSE x \in S : \A y \in S : x <= y
         IN  <<m>> \o SortedIds(S \ {m})

\* g.lib.get_item(id) / g.lib.get_album(id): the record, or None (no element)
lib_get_item(id) == IF id \in lib.items THEN <<Item(id)>> ELSE <<>>

lib_get_album(id) == IF id \in lib.albums THEN <<Album(id)>> ELSE <<>>

\* g.lib.items() / g.lib.albums() without a query: the whole collection
lib_items == [i \in 1..Cardinality(lib.items) |-> Item(SortedIds(lib.items)[i])]

lib_albums == [i \in 1..Cardinality(lib.albums) |-> Album(SortedIds(lib.albums)[i])]

\* album.items(): the tracks of the release
album_items(obj) ==
    LET S == {i \in lib.items : Item(i).rec.album_id = obj.rec.id}
    IN  [i \in 1..Cardinality(S) |-> Item(SortedIds(S)[i])]

\* sequences of distinct members of S, any order, any length: what a query may return
Arrangements(S) ==
    {q \in UNION {[1..n -> S] : n \in 0..Cardinality(S)} :
        \A i, j \in 1..Len(q) : i # j => q[i] # q[j]}

\* the stat-able files when exactly the tracks F have a readable backing file
FilesOf(F) ==
    [p \in {Path(i) : i \in F} |-> 1000 * (CHOOSE i \in F : Path(i) = p)]

\* os.path.getsize(util.syspath(path)): the byte length, or OSError
getsize(path) ==
    IF path \in DOMAIN files
    THEN [exc |-> "none", size |-> files[path]]
    ELSE [exc |-> "OSError", size |-> 0]

\* --------------------------------------------------------------- projection
\* del d[k]
Del(d, k) == [x \in (DOMAIN d) \ {k} |-> d[x]]

\* d[k] = v
Put(d, k, v) == [x \in (DOMAIN d) \cup {k} |-> IF x = k THEN v ELSE d[x]]

\* the Item branch of _rep without its del out['path']
rep_item_keep_path(obj) ==
    LET probe == getsize(obj.rec.path)
    IN  [out |-> Put(obj.rec, "size", IF probe.exc = "none" THEN probe.size ELSE 0),
         obj |-> obj]

\* the Item branch of _rep: out is the returned dict, obj the record after the call
_rep_item(obj) ==
    LET out   == obj.rec
        probe == getsize(obj.rec.path)
    IN  [out |-> Put(Del(out, "path"), "size",
                     IF probe.exc = "none" THEN probe.size ELSE 0),
         obj |-> obj]

\* _rep(obj, expand): out is the returned dict, obj the record after the call
_rep(obj, expand) ==
    IF obj.kind = "Item" THEN _rep_item(obj)
    ELSE LET out == Del(obj.rec, "artpath")
         IN  [out |-> IF expand
                      THEN Put(out, "items",
                               [i \in 1..Len(album_items(obj)) |->
                                   _rep_item(album_items(obj)[i]).out])
                      ELSE out,
              obj |-> obj]

\* ------------------------------------------------------------------- JSON
RECURSIVE join(_, _)
join(seqs, sep) ==
    IF seqs = <<>> THEN <<>>
    ELSE IF Len(seqs) = 1 THEN seqs[1]
    ELSE seqs[1] \o sep \o join(Tail(seqs), sep)

KeyOrder == <<"id", "title", "album", "album_id", "size", "path", "artpath", "items">>

Members(d) == SelectSeq(KeyOrder, LAMBDA k : k \in DOMAIN d)

\* json.dumps of a dict of scalars
dumps_flat(d) ==
    <<"{">> \o
    join([i \in 1..Len(Members(d)) |->
            <<ToString(Members(d)[i]), ":", ToString(d[Members(d)[i]])>>], <<",">>)
    \o <<"}">>

\* json.dumps of a projection; "items" holds a list of dicts of scalars
dumps(d) ==
    <<"{">> \o
    join([i \in 1..Len(Members(d)) |->
            LET k == Members(d)[i]
            IN  <<ToString(k), ":">> \o
                (IF k = "items"
                 THEN <<"[">> \o join([j \in 1..Len(d[k]) |-> dumps_flat(d[k][j])],
                                      <<",">>) \o <<"]">>
                 ELSE <<ToString(d[k])>>)], <<",">>)
    \o <<"}">>

\* '{"%s":[' % root
Opening(root) == <<"{", ToString(root), ":", "[">>

Closing == <<"]", "}">>

Comma == <<",">>

\* a query's result: the records of the ids the backend chose, in its order
ItemsOf(res) == [i \in 1..Len(res) |-> Item(res[i])]

AlbumsOf(res) == [i \in 1..Len(res) |-> Album(res[i])]

\* getattr(g.lib, method)(parts), where the backend answers the query with res
lib_query(method, parts, res) ==
    IF method \notin LibMethods THEN [exc |-> "AttributeError", entities |-> <<>>]
    ELSE [exc |-> "none",
          entities |-> IF method = "items" THEN ItemsOf(res) ELSE AlbumsOf(res)]

\* ---------------------------------------------------------------- responses
NoRequest == [route |-> "none", kind |-> "none", arg |-> <<>>, fault |-> 0]

NoIds == [exc |-> "none", ids |-> <<>>]

NoGen == [root |-> "", src |-> <<>>, pos |-> 0, first |-> TRUE, item |-> <<>>,
          lazy |-> FALSE]

\* json_generator(items, root) called: a generator object whose body has not run
NewGen(items, root, lazy) ==
    [root |-> root, src |-> items, pos |-> 0, first |-> TRUE, item |-> <<>>,
     lazy |-> lazy]

\* an exception left the responder: Flask answers 500
ServerError(ids, cs) ==
    [status |-> 500, body |-> <<>>, stream |-> FALSE, gen |-> NoGen,
     projs |-> <<>>, entity_ids |-> ids, calls |-> cs]

\* flask.abort(404)
NotFound(ids, cs) ==
    [status |-> 404, body |-> <<>>, stream |-> FALSE, gen |-> NoGen,
     projs |-> <<>>, entity_ids |-> ids, calls |-> cs]

\* flask.jsonify(_rep(entity))
Jsonify(entity, ids, cs) ==
    [status |-> 200, body |-> <<dumps(_rep(entity, FALSE).out)>>, stream |-> FALSE,
     gen |-> NoGen,
     projs |-> <<[before |-> entity, after |-> _rep(entity, FALSE).obj,
                  out |-> _rep(entity, FALSE).out]>>,
     entity_ids |-> ids, calls |-> cs]

\* app.response_class(json_generator(entities, root), mimetype=...)
Streamed(entities, root, lazy, ids, cs) ==
    [status |-> 0, body |-> <<>>, stream |-> TRUE, gen |-> NewGen(entities, root, lazy),
     projs |-> <<>>, entity_ids |-> ids, calls |-> cs]

\* the root name each resource is decorated with
Name(kind) == IF kind = "item" THEN "items" ELSE "albums"

\* get_item(id) / get_album(id), the retrievers handed to resource(name)
retriever(kind, id) == IF kind = "item" THEN lib_get_item(id) ELSE lib_get_album(id)

RetrieverMethod(kind) == IF kind = "item" THEN "get_item" ELSE "get_album"

\* [entity for entity in entities if entity]
RECURSIVE Truthy(_)
Truthy(found) ==
    IF found = <<>> THEN <<>>
    ELSE (IF Head(found) = <<>> THEN <<>> ELSE Head(found)) \o Truthy(Tail(found))

\* resource's responder with the single-entity branch dropped
resource_no_bare(kind, arg, fault) ==
    LET parsed == _extract_ids(arg)
        ids    == parsed.ids
        raised == fault \in 1..Len(ids)
        made   == [i \in 1..(IF raised THEN fault ELSE Len(ids)) |->
                      <<RetrieverMethod(kind), ids[i]>>]
        found  == [i \in 1..Len(ids) |-> retriever(kind, ids[i])]
        entities == Truthy(found)
    IN  IF parsed.exc # "none" THEN ServerError(parsed, <<>>)
        ELSE IF raised THEN ServerError(parsed, made)
        ELSE IF entities # <<>> THEN Streamed(entities, Name(kind), FALSE, parsed, made)
        ELSE NotFound(parsed, made)

\* resource's responder with each lookup wrapped in try/except: a lookup that
\* raises counts as absent
resource_swallow(kind, arg, fault) ==
    LET parsed == _extract_ids(arg)
        ids    == parsed.ids
        made   == [i \in 1..Len(ids) |-> <<RetrieverMethod(kind), ids[i]>>]
        found  == [i \in 1..Len(ids) |->
                      IF i = fault THEN <<>> ELSE retriever(kind, ids[i])]
        entities == Truthy(found)
    IN  IF parsed.exc # "none" THEN ServerError(parsed, <<>>)
        ELSE IF Len(entities) = 1 THEN Jsonify(entities[1], parsed, made)
        ELSE IF entities # <<>> THEN Streamed(entities, Name(kind), FALSE, parsed, made)
        ELSE NotFound(parsed, made)

\* resource(name).make_responder(retriever).responder(entity_ids); the lookup
\* number fault (if any) raises a backend error
resource(kind, arg, fault) ==
    LET parsed == _extract_ids(arg)
        ids    == parsed.ids
        raised == fault \in 1..Len(ids)
        made   == [i \in 1..(IF raised THEN fault ELSE Len(ids)) |->
                      <<RetrieverMethod(kind), ids[i]>>]
        found  == [i \in 1..Len(ids) |-> retriever(kind, ids[i])]
        entities == Truthy(found)
    IN  IF parsed.exc # "none" THEN ServerError(parsed, <<>>)
        ELSE IF raised THEN ServerError(parsed, made)
        ELSE IF Len(entities) = 1 THEN Jsonify(entities[1], parsed, made)
        ELSE IF entities # <<>> THEN Streamed(entities, Name(kind), FALSE, parsed, made)
        ELSE NotFound(parsed, made)

\* item_query(queries) / album_query(queries), the query functions handed to
\* resource_query(name)
query_func(kind, parts, res) ==
    IF kind = "item" THEN lib_query("items", parts, res)
    ELSE lib_query("album", parts, res)

QueryMethod(kind) == IF kind = "item" THEN "items" ELSE "album"

\* resource_query(name).make_responder(query_func).responder(query); the backend
\* answers with res, or raises when fault = 1
resource_query(kind, query, fault, res) ==
    LET parts == split(query, "/")
        got   == query_func(kind, parts, res)
        made  == <<<<QueryMethod(kind), parts>>>>
    IN  IF got.exc # "none" THEN ServerError(NoIds, made)
        ELSE IF fault = 1 THEN ServerError(NoIds, made)
        ELSE Streamed(got.entities, "results", TRUE, NoIds, made)

\* resource_list(name).make_responder(list_all).responder(); list_all is not called
resource_list(kind, fault) ==
    LET made == <<<<"items", <<>>>>>>
    IN  IF fault = 1 THEN ServerError(NoIds, made)
        ELSE Streamed(lib_items, Name(kind), TRUE, NoIds, made)

\* ------------------------------------------------------------------ actions
Terminal == {"responded", "gen_end", "gen_raised"}

Init ==
    /\ lib \in [items : SUBSET Ids, albums : SUBSET Ids]
    /\ files \in {FilesOf(F) : F \in SUBSET lib.items}
    /\ g_lib = FALSE
    /\ pc = "idle"
    /\ request = NoRequest
    /\ entity_ids = NoIds
    /\ calls = <<>>
    /\ status = 0
    /\ frags = <<>>
    /\ gen = NoGen
    /\ projs = <<>>

\* a new request arrives: g.lib = app.config['lib']
before_request ==
    /\ pc \in Terminal \cup {"idle"}
    /\ g_lib' = TRUE
    /\ pc' = "ready"
    /\ request' = NoRequest
    /\ entity_ids' = NoIds
    /\ calls' = <<>>
    /\ status' = 0
    /\ frags' = <<>>
    /\ gen' = NoGen
    /\ projs' = <<>>
    /\ UNCHANGED <<lib, files>>

\* a request can be routed: none is being served and g.lib is bound
Routable == pc = "ready" /\ g_lib

\* the view function returned resp for the request req
Dispatch(req, resp) ==
    /\ request' = req
    /\ entity_ids' = resp.entity_ids
    /\ calls' = resp.calls
    /\ status' = resp.status
    /\ frags' = resp.body
    /\ gen' = resp.gen
    /\ projs' = resp.projs
    /\ pc' = IF resp.stream THEN "gen_start" ELSE "responded"
    /\ UNCHANGED <<lib, files, g_lib>>

\* GET /item/<entity_ids>
get_item ==
    /\ Routable
    /\ \E arg \in Texts(ArgChars, 1, MaxArgLen) :
      \E fault \in 0..Len(_extract_ids(arg).ids) :
        Dispatch([route |-> "ids", kind |-> "item", arg |-> arg, fault |-> fault],
                 resource("item", arg, fault))

\* GET /album/<entity_ids>
get_album ==
    /\ Routable
    /\ \E arg \in Texts(ArgChars, 1, MaxArgLen) :
      \E fault \in 0..Len(_extract_ids(arg).ids) :
        Dispatch([route |-> "ids", kind |-> "album", arg |-> arg, fault |-> fault],
                 resource("album", arg, fault))

\* <path:query> matches [^/].*?
Queries == {q \in Texts(QueryChars, 1, MaxQueryLen) : q[1] # "/"}

\* GET /item/query/<path:query>
item_query ==
    /\ Routable
    /\ \E query \in Queries, fault \in {0, 1}, res \in Arrangements(lib.items) :
        Dispatch([route |-> "query", kind |-> "item", arg |-> query, fault |-> fault],
                 resource_query("item", query, fault, res))

\* GET /album/query/<path:query>
album_query ==
    /\ Routable
    /\ \E query \in Queries, fault \in {0, 1}, res \in Arrangements(lib.albums) :
        Dispatch([route |-> "query", kind |-> "album", arg |-> query, fault |-> fault],
                 resource_query("album", query, fault, res))

\* GET /item/
all_items ==
    /\ Routable
    /\ \E fault \in {0, 1} :
        Dispatch([route |-> "list", kind |-> "item", arg |-> <<>>, fault |-> fault],
                 resource_list("item", fault))

\* GET /album/
all_albums ==
    /\ Routable
    /\ \E fault \in {0, 1} :
        Dispatch([route |-> "list", kind |-> "album", arg |-> <<>>, fault |-> fault],
                 resource_list("album", fault))

\* the server writes a fragment the generator yielded; the first write sends the
\* status line of the response object
Write(fragment) ==
    /\ frags' = Append(frags, fragment)
    /\ status' = IF status = 0 THEN 200 ELSE status

\* the generator fetching its first item before it yields the opening
GenYieldOpen_prefetch ==
    /\ pc = "gen_start"
    /\ Write(Opening(gen.root))
    /\ gen' = IF gen.src = <<>> THEN gen
              ELSE [gen EXCEPT !.pos = 1, !.item = <<gen.src[1]>>, !.first = FALSE]
    /\ pc' = IF gen.src = <<>> THEN "gen_close" ELSE "gen_dump"
    /\ UNCHANGED <<lib, files, g_lib, request, entity_ids, calls, projs>>

\* the generator without its first yield
GenYieldOpen_missing ==
    /\ pc = "gen_start"
    /\ pc' = "gen_iter"
    /\ UNCHANGED <<lib, files, g_lib, request, entity_ids, calls, status, frags, gen,
                   projs>>

\* yield '{"%s":[' % root
GenYieldOpen ==
    /\ pc = "gen_start"
    /\ Write(Opening(gen.root))
    /\ pc' = "gen_iter"
    /\ UNCHANGED <<lib, files, g_lib, request, entity_ids, calls, gen, projs>>

\* the loop head with first never cleared
GenNextItem_keep_first ==
    /\ pc = "gen_iter"
    /\ gen.pos < Len(gen.src)
    /\ gen' = [gen EXCEPT !.pos = gen.pos + 1, !.item = <<gen.src[gen.pos + 1]>>]
    /\ pc' = IF gen.first THEN "gen_dump" ELSE "gen_comma"
    /\ UNCHANGED <<lib, files, g_lib, request, entity_ids, calls, status, frags, projs>>

\* for item in items: the next item; if first: first = False
GenNextItem ==
    /\ pc = "gen_iter"
    /\ gen.pos < Len(gen.src)
    /\ gen' = [gen EXCEPT !.pos = gen.pos + 1, !.item = <<gen.src[gen.pos + 1]>>,
                          !.first = FALSE]
    /\ pc' = IF gen.first THEN "gen_dump" ELSE "gen_comma"
    /\ UNCHANGED <<lib, files, g_lib, request, entity_ids, calls, status, frags, projs>>

\* for item in items: the source is exhausted
GenNextStop ==
    /\ pc = "gen_iter"
    /\ gen.pos = Len(gen.src)
    /\ pc' = "gen_close"
    /\ UNCHANGED <<lib, files, g_lib, request, entity_ids, calls, status, frags, gen,
                   projs>>

\* for item in items: the backend cursor raises; the exception leaves the generator
\* while the server iterates the response, and a 500 can be sent only when no
\* status line has been sent yet
GenNextRaise ==
    /\ pc = "gen_iter"
    /\ gen.lazy
    /\ status' = IF status = 0 THEN 500 ELSE status
    /\ pc' = "gen_raised"
    /\ UNCHANGED <<lib, files, g_lib, request, entity_ids, calls, frags, gen, projs>>

\* yield ','
GenYieldComma ==
    /\ pc = "gen_comma"
    /\ Write(Comma)
    /\ pc' = "gen_dump"
    /\ UNCHANGED <<lib, files, g_lib, request, entity_ids, calls, gen, projs>>

\* yield json.dumps(_rep(item))
GenYieldItem ==
    /\ pc = "gen_dump"
    /\ LET r == _rep(gen.item[1], FALSE)
       IN  /\ Write(dumps(r.out))
           /\ projs' = Append(projs, [before |-> gen.item[1], after |-> r.obj,
                                      out |-> r.out])
    /\ pc' = "gen_iter"
    /\ UNCHANGED <<lib, files, g_lib, request, entity_ids, calls, gen>>

\* yield ']}'
GenYieldClose ==
    /\ pc = "gen_close"
    /\ Write(Closing)
    /\ pc' = "gen_end"
    /\ UNCHANGED <<lib, files, g_lib, request, entity_ids, calls, gen, projs>>

Next ==
    \/ before_request
    \/ get_item
    \/ get_album
    \/ item_query
    \/ album_query
    \/ all_items
    \/ all_albums
    \/ GenYieldOpen
    \/ GenNextItem
    \/ GenNextStop
    \/ GenNextRaise
    \/ GenYieldComma
    \/ GenYieldItem
    \/ GenYieldClose

Spec == Init /\ [][Next]_vars

\* ------------------------------------------------- the parser on its own
\* _extract_ids is about to be called on any text of the bounded alphabet
ParseInit ==
    /\ lib = [items |-> {}, albums |-> {}]
    /\ files = FilesOf({})
    /\ g_lib = FALSE
    /\ pc = "call"
    /\ request \in {[route |-> "parse", kind |-> "none", arg |-> s, fault |-> 0] :
                       s \in Texts(ParseChars, 0, MaxLen)}
    /\ entity_ids = NoIds
    /\ calls = <<>>
    /\ status = 0
    /\ frags = <<>>
    /\ gen = NoGen
    /\ projs = <<>>

\* ids = _extract_ids(string_ids)
ExtractIds ==
    /\ pc = "call"
    /\ entity_ids' = _extract_ids(request.arg)
    /\ pc' = "return"
    /\ UNCHANGED <<lib, files, g_lib, request, calls, status, frags, gen, projs>>

ParseNext == ExtractIds

SpecParse == ParseInit /\ [][ParseNext]_vars

\* ------------------------------------------------------------- properties
\* positions of the separator in s
SepAt(s, sep) == {i \in 1..Len(s) : s[i] = sep}

\* position of the k-th separator of s; 0 for k = 0, Len(s) + 1 past the last
NthSep(s, sep, k) ==
    IF k = 0 THEN 0
    ELSE IF k > Cardinality(SepAt(s, sep)) THEN Len(s) + 1
    ELSE CHOOSE i \in SepAt(s, sep) :
             Cardinality({j \in SepAt(s, sep) : j <= i}) = k

\* the k-th separated token of s: the text strictly between separators k-1 and k
Token(s, sep, k) == SubSeq(s, NthSep(s, sep, k - 1) + 1, NthSep(s, sep, k) - 1)

TokenCount(s, sep) == Cardinality(SepAt(s, sep)) + 1

\* indices of the tokens of s that int() accepts
IntTokens(s) == {k \in 1..TokenCount(s, ",") : int(Token(s, ",", k)).ok}

\* the j-th smallest member of a set of naturals
NthOf(S, j) == CHOOSE k \in S : Cardinality({g \in S : g <= k}) = j

\* number of positions of q holding v
Count(q, v) == Cardinality({i \in 1..Len(q) : q[i] = v})

\* C2: _extract_ids(s) never raises and returns exactly the comma-separated
\* tokens of s that int() accepts, as integers, in their order in s; every
\* other token (the empty one included) is left out, and "" gives [].
ParseExact ==
    pc = "return" =>
        LET s   == request.arg
            ids == entity_ids.ids
        IN  /\ entity_ids.exc = "none"
            /\ Len(ids) = Cardinality(IntTokens(s))
            /\ \A j \in 1..Len(ids) :
                   ids[j] = int(Token(s, ",", NthOf(IntTokens(s), j))).val
            /\ (s = <<>> => ids = <<>>)

\* C2 witness: "2,,1" was parsed: two integers around an empty token
ParseExactWitness ==
    /\ pc = "return"
    /\ request.arg = <<"2", ",", ",", "1">>
    /\ entity_ids.ids = <<2, 1>>

\* the concatenation of the fragments of a body
Flat(fs) == join(fs, <<>>)

\* json.dumps({root: [projection of each of E]}) in one piece
Eager(E, root) ==
    <<"{", ToString(root), ":", "[">> \o
    join([i \in 1..Len(E) |-> dumps(_rep(E[i], FALSE).out)], <<",">>) \o
    <<"]", "}">>

\* the records of the ids of q that the library holds, in the order of q
Surviving(kind, q) ==
    LET held == IF kind = "item" THEN lib.items ELSE lib.albums
        kept == SelectSeq(q, LAMBDA v : v \in held)
    IN  [i \in 1..Len(kept) |-> IF kind = "item" THEN Item(kept[i]) ELSE Album(kept[i])]

\* the by-ids request being served has been answered in full
ByIdsAnswered ==
    request.route = "ids" /\ request.fault = 0 /\ pc \in {"responded", "gen_end"}

\* C1: by ids, with S the records found for the parsed ids in id-list order:
\* no record gives 404 with an empty body, one record gives its bare projected
\* object, two or more give {"items":[...]} / {"albums":[...]} holding the
\* projections of S in order.
ShapeRule ==
    /\ (request.route = "ids" /\ request.fault = 0) => pc # "gen_raised"
    /\ ByIdsAnswered =>
        LET S == Surviving(request.kind, entity_ids.ids)
            root == IF request.kind = "item" THEN "items" ELSE "albums"
        IN  /\ Len(S) = 0 => status = 404 /\ frags = <<>>
            /\ Len(S) = 1 => status = 200 /\ frags = <<dumps(_rep(S[1], FALSE).out)>>
            /\ Len(S) >= 2 => status = 200 /\ Flat(frags) = Eager(S, root)

\* C1 witness: GET /album/2,x,1 answered with both releases, wrapped
ShapeRuleWitness ==
    /\ ByIdsAnswered
    /\ request.kind = "album"
    /\ entity_ids.ids = <<2, 1>>
    /\ Len(projs) = 2
    /\ pc = "gen_end"

\* number of comma fragments of a body
Commas(fs) == Cardinality({i \in 1..Len(fs) : fs[i] = <<",">>})

\* C3: the fragments of a finished json_generator(E, r) concatenate to the eager
\* {"r":[e1,...]}; the first is the opening, the last the closing, there are
\* len(E)-1 commas, none leading or trailing, and an empty E gives {"r":[]}.
EncoderMatchesEager ==
    pc = "gen_end" =>
        LET n == Len(gen.src)
        IN  /\ Flat(frags) = Eager(gen.src, gen.root)
            /\ frags[1] = <<"{", ToString(gen.root), ":", "[">>
            /\ frags[Len(frags)] = <<"]", "}">>
            /\ Commas(frags) = IF n = 0 THEN 0 ELSE n - 1
            /\ Len(frags) = 2 + n + Commas(frags)
            /\ n >= 1 => frags[2] # <<",">> /\ frags[Len(frags) - 1] # <<",">>
            /\ n = 0 => frags = << <<"{", ToString(gen.root), ":", "[">>, <<"]", "}">> >>

\* C3 witness: a generator over two entities ran to its end
EncoderMatchesEagerWitness ==
    pc = "gen_end" /\ Len(gen.src) = 2 /\ Commas(frags) = 1

\* C5: by ids, a lookup that raises ends the request with a server error and
\* no body, whatever the other ids are.
LookupErrorIsFatal ==
    (request.route = "ids" /\ request.fault >= 1) =>
        /\ pc = "responded"
        /\ status = 500
        /\ frags = <<>>

\* C5 witness: GET /item/1,2 with track 1 stored, where the lookup of 2 raised
LookupErrorIsFatalWitness ==
    /\ request.route = "ids"
    /\ request.kind = "item"
    /\ request.arg = <<"1", ",", "2">>
    /\ request.fault = 2
    /\ 1 \in lib.items
    /\ pc = "responded"

\* C9 as claimed: no id occurs twice in what _extract_ids returned, and a list
\* repeating one stored id is answered with that one entity.
IdsDeduplicated ==
    request.route = "ids" =>
        /\ \A i, j \in 1..Len(entity_ids.ids) :
               i # j => entity_ids.ids[i] # entity_ids.ids[j]
        /\ \A v \in Ids :
               (/\ ByIdsAnswered
                /\ entity_ids.ids # <<>>
                /\ \A i \in 1..Len(entity_ids.ids) : entity_ids.ids[i] = v
                /\ retriever(request.kind, v) # <<>>)
               => pc = "responded" /\ status = 200 /\ Len(projs) = 1

\* C9 amended: _extract_ids keeps duplicates: an id occurs in its result as often
\* as the id list has tokens parsing to it, in token order, and a list naming one
\* stored id n >= 2 times is answered with the wrapped array of n copies.
IdsKeepDuplicates ==
    request.route = "ids" =>
        LET s   == request.arg
            ids == entity_ids.ids
        IN  /\ \A k \in IntTokens(s) :
                   Count(ids, int(Token(s, ",", k)).val)
                     = Cardinality({m \in IntTokens(s) :
                          int(Token(s, ",", m)).val = int(Token(s, ",", k)).val})
            /\ Len(ids) = Cardinality(IntTokens(s))
            /\ \A v \in Ids :
                   (/\ ByIdsAnswered
                    /\ Len(ids) >= 2
                    /\ \A i \in 1..Len(ids) : ids[i] = v
                    /\ retriever(request.kind, v) # <<>>)
                   => /\ pc = "gen_end"
                      /\ Len(projs) = Len(ids)
                      /\ \A i \in 1..Len(projs) :
                             <<projs[i].before>> = retriever(request.kind, v)

\* C9 witness: GET /item/1,1 with track 1 stored, answered with two elements
IdsKeepDuplicatesWitness ==
    /\ ByIdsAnswered
    /\ request.kind = "item"
    /\ request.arg = <<"1", ",", "1">>
    /\ pc = "gen_end"
    /\ Len(projs) = 2

\* C4 as claimed: a finished listing holds every record of the requested kind,
\* and only those, under that kind's root name.
ListStreamsOwnKind ==
    (request.route = "list" /\ pc = "gen_end") =>
        IF request.kind = "item"
        THEN Flat(frags) = Eager(lib_items, "items")
        ELSE Flat(frags) = Eager(lib_albums, "albums")

\* fragments of a body that are neither the opening, a comma nor the closing
EntityFrags(fs) ==
    {i \in 1..Len(fs) :
        fs[i] \notin {<<"{", ToString(gen.root), ":", "[">>, <<",">>, <<"]", "}">>}}

\* C6 as claimed: a failure while the entity sequence is iterated reaches the
\* client as a server error, never as a started response cut short.
IterationFailureSurfaced ==
    pc = "gen_raised" => status = 500 /\ frags = <<>>

\* C6 amended: when the entity sequence fails after k >= 0 entities, status 200,
\* the opening and the k entity fragments (with their k-1 commas) are already
\* sent and the closing never is; a server error is only ever the outcome of a
\* failure inside the responder, before any fragment.
IterationFailureTruncates ==
    /\ pc = "gen_raised" =>
        /\ status = 200
        /\ frags # <<>>
        /\ frags[1] = <<"{", ToString(gen.root), ":", "[">>
        /\ Cardinality(EntityFrags(frags)) = gen.pos
        /\ Commas(frags) = IF gen.pos = 0 THEN 0 ELSE gen.pos - 1
        /\ \A i \in 1..Len(frags) : frags[i] # <<"]", "}">>
    /\ status = 500 => pc = "responded" /\ frags = <<>>

\* C6 witness: a listing failed after its first entity had been sent
IterationFailureTruncatesWitness ==
    pc = "gen_raised" /\ gen.pos = 1 /\ Len(gen.src) = 2 /\ request.route = "list"

\* C7: every projection of a response is redacted and is what the body holds: a
\* track has no path and has size >= 0, 0 when its file cannot be stat-ed (a
\* request no backend call of which fails is never a server error); a release
\* has no artpath; the projected record is left as it was.
Redacted ==
    /\ \A i \in 1..Len(projs) :
        LET p == projs[i]
        IN  /\ p.after = p.before
            /\ p.before.kind = "Item" =>
                 /\ "path" \notin DOMAIN p.out
                 /\ "size" \in DOMAIN p.out
                 /\ p.out.size >= 0
                 /\ (p.before.rec.path \notin DOMAIN files => p.out.size = 0)
            /\ p.before.kind = "Album" => "artpath" \notin DOMAIN p.out
    /\ (request.fault = 0 /\ request.route \in {"ids", "list"}) => status # 500
    /\ pc \in {"responded", "gen_end", "gen_raised"} /\ status = 200 =>
        /\ \A i \in 1..Len(frags) : \A j \in 1..Len(frags[i]) :
               frags[i][j] \notin {ToString("path"), ToString("artpath")}
        /\ IF request.route = "ids" /\ pc = "responded"
           THEN frags = <<dumps(projs[1].out)>>
           ELSE /\ Cardinality(EntityFrags(frags)) = Len(projs)
                /\ \A i \in 1..Len(projs) :
                       frags[NthOf(EntityFrags(frags), i)] = dumps(projs[i].out)

\* C7 witness: a response holding a track whose file is missing and one whose
\* file is there
RedactedWitness ==
    /\ pc = "gen_end"
    /\ Len(projs) = 2
    /\ projs[1].before.kind = "Item"
    /\ projs[1].out.size = 0
    /\ projs[2].out.size > 0

\* the generator is between its creation and its last yield
Running == pc \in {"gen_start", "gen_iter", "gen_comma", "gen_dump", "gen_close"}

\* C8: json_generator pulls the entities once each in source order, after the
\* opening is out, and pulls entity i+1 only when the fragment of entity i is
\* out, so at most one pulled entity is ever unsent; the closing follows the
\* exhaustion of the source.
SinglePass ==
    /\ [](Running =>
            gen.pos - Cardinality(EntityFrags(frags)) \in {0, 1})
    /\ [][Running =>
            /\ gen'.src = gen.src
            /\ gen'.pos \in {gen.pos, gen.pos + 1}
            /\ gen'.pos = gen.pos + 1 =>
                 /\ frags # <<>>
                 /\ frags[1] = <<"{", ToString(gen.root), ":", "[">>
                 /\ Cardinality(EntityFrags(frags)) = gen.pos
                 /\ frags' = frags
                 /\ gen'.item = <<gen.src[gen.pos + 1]>>
            /\ frags' # frags =>
                 /\ Len(frags') = Len(frags) + 1
                 /\ SubSeq(frags', 1, Len(frags)) = frags
                 /\ Len(frags') \in EntityFrags(frags') =>
                      /\ gen.pos >= 1
                      /\ frags'[Len(frags')] = dumps(_rep(gen.src[gen.pos], FALSE).out)
                 /\ frags'[Len(frags')] = <<"]", "}">> => gen.pos = Len(gen.src)
       ]_vars

\* C8 witness: a backend cursor of two entities was consumed to its end
SinglePassWitness ==
    pc = "gen_end" /\ gen.lazy /\ gen.pos = 2 /\ Len(projs) = 2

\* C10 as claimed: a query whose backend call does not fail is answered with
\* {"results":[...]} holding the projections of the returned entities in order,
\* after one call of the query function of the requested kind with the
\* '/'-separated segments of the query.
QueryAlwaysWrapped ==
    (request.route = "query" /\ request.fault = 0 /\ pc \in {"responded", "gen_end"}) =>
        /\ pc = "gen_end"
        /\ status = 200
        /\ Flat(frags) = Eager(gen.src, "results")
        /\ calls = << <<IF request.kind = "item" THEN "items" ELSE "albums",
                       [k \in 1..TokenCount(request.arg, "/") |->
                           Token(request.arg, "/", k)]>> >>
        /\ \A i \in 1..Len(gen.src) :
               gen.src[i].kind = IF request.kind = "item" THEN "Item" ELSE "Album"

====
